---- MODULE Spec2Model ----
(***************************************************************************)
(* Model of cst_demo.py: the C4 rotation group acting on n x n binary      *)
(* grids, orbit canonicalization, the plug-in mutual-information and       *)
(* compression estimators, and the orbit-restricted search.                *)
(*                                                                         *)
(* A grid is a sequence of n*n bits (row-major).  Python indices are       *)
(* 0-based; a Python index i of a tuple is position i+1 of the sequence.   *)
(* The value None is the empty sequence <<>>, a present value c is <<c>>.  *)
(***************************************************************************)
EXTENDS Integers, Sequences, FiniteSets, TLC

\* ------------------------------------------------------------------ bounds
MaxN == 3
MaxK == 5
MaxCode == 7
MaxSamples == 3
MaxArgSamples == 2
MaxCompressed == 2

VARIABLES
  n, p, rot90_map,
  x, k, out, op,
  args_samples, pairs, mi_emp, samples, main_pc,
  raw, canon, L_raw, L_canon, sci_est, exc, div_reached, sizes,
  search_pc, idx, best, evals_raw, seen, evals_orbit, best2,
  raw_log, orbit_log, result

gridVars == <<x, k, out, op>>
mainVars == <<args_samples, pairs, mi_emp, main_pc,
              raw, canon, L_raw, L_canon, sci_est, exc, div_reached, sizes>>
searchVars == <<search_pc, idx, best, evals_raw, seen, evals_orbit, best2,
                raw_log, orbit_log, result>>
vars == <<n, p, rot90_map, samples, gridVars, mainVars, searchVars>>

\* ------------------------------------------------- group action on grids
RECURSIVE rotate90_loop(_, _, _, _)
rotate90_loop(nn, r, c, m) ==
  IF r >= nn THEN m
  ELSE IF c >= nn THEN rotate90_loop(nn, r + 1, 0, m)
  ELSE rotate90_loop(nn, r, c + 1, Append(m, (nn - 1 - c) * nn + r))

\* variant: counter-clockwise source (c, n-1-r) in place of (n-1-c, r)
RECURSIVE rotate90_loop_ccw(_, _, _, _)
rotate90_loop_ccw(nn, r, c, m) ==
  IF r >= nn THEN m
  ELSE IF c >= nn THEN rotate90_loop_ccw(nn, r + 1, 0, m)
  ELSE rotate90_loop_ccw(nn, r, c + 1, Append(m, c * nn + (nn - 1 - r)))

rotate90_indices_ccw(nn) ==
  rotate90_loop_ccw(nn, 0, 0, <<>>)

rotate90_indices(nn) ==
  rotate90_loop(nn, 0, 0, <<>>)

apply_map(vec, index_map) ==
  [i \in 1..Len(index_map) |-> vec[index_map[i] + 1]]

RECURSIVE apply_times(_, _, _)
apply_times(vec, index_map, t) ==
  IF t = 0 THEN vec ELSE apply_times(apply_map(vec, index_map), index_map, t - 1)

\* variant: one application too many, range((k + 1) % 4)
rotate_off_by_one(vec, nn, kk, index_map) ==
  apply_times(vec, index_map, (kk + 1) % 4)

rotate(vec, nn, kk, index_map) ==
  apply_times(vec, index_map, kk % 4)

RECURSIVE Pow2(_)
Pow2(e) == IF e = 0 THEN 1 ELSE 2 * Pow2(e - 1)

int_to_bits(v, bits) ==
  [i \in 1..bits |-> (v \div Pow2(bits - 1 - (i - 1))) % 2]

RECURSIVE bits_to_int_loop(_, _, _)
bits_to_int_loop(bits, i, v) ==
  IF i > Len(bits) THEN v
  ELSE bits_to_int_loop(bits, i + 1, 2 * v + (bits[i] % 2))

bits_to_int(bits) ==
  bits_to_int_loop(bits, 1, 0)

\* Python's tuple ordering: first differing position decides, a proper
\* prefix is smaller.
RECURSIVE TupleLess(_, _, _)
TupleLess(a, b, i) ==
  IF i > Len(a) THEN i <= Len(b)
  ELSE IF i > Len(b) THEN FALSE
  ELSE IF a[i] # b[i] THEN a[i] < b[i]
  ELSE TupleLess(a, b, i + 1)

\* Python's min over a list: the first of the smallest items.
RECURSIVE PyMin(_, _, _)
PyMin(cands, i, cur) ==
  IF i > Len(cands) THEN cur
  ELSE PyMin(cands, i + 1, IF TupleLess(cands[i], cur, 1) THEN cands[i] ELSE cur)

RECURSIVE candidates_loop(_, _, _, _)
candidates_loop(cands, cur, index_map, t) ==
  IF t = 0 THEN cands
  ELSE candidates_loop(Append(cands, apply_map(cur, index_map)),
                       apply_map(cur, index_map), index_map, t - 1)

\* variant: only two further rotations are generated (range(2))
canonical_representative_two(xx, nn, index_map) ==
  LET candidates == candidates_loop(<<xx>>, xx, index_map, 2)
  IN  PyMin(candidates, 2, candidates[1])

\* variant: the input itself is left out of the candidates
canonical_representative_no_input(xx, nn, index_map) ==
  LET candidates == Tail(candidates_loop(<<xx>>, xx, index_map, 3))
  IN  PyMin(candidates, 2, candidates[1])

canonical_representative(xx, nn, index_map) ==
  LET candidates == candidates_loop(<<xx>>, xx, index_map, 3)
  IN  PyMin(candidates, 2, candidates[1])

RECURSIVE orbit_loop(_, _, _, _)
orbit_loop(s, cur, index_map, t) ==
  IF t = 0 THEN s
  ELSE orbit_loop(s \cup {bits_to_int(cur)}, apply_map(cur, index_map),
                  index_map, t - 1)

\* variant: only three of the four rotations are collected (range(3))
orbit_size_three(xx, nn, index_map) ==
  Cardinality(orbit_loop({}, xx, index_map, 3))

orbit_size(xx, nn, index_map) ==
  Cardinality(orbit_loop({}, xx, index_map, 4))

RECURSIVE SumSeq(_, _)
SumSeq(s, i) == IF i > Len(s) THEN 0 ELSE s[i] + SumSeq(s, i + 1)

\* variant: only the first row is counted, sum(x[:n]) % 5
invariant_cost_first_row(xx, nn) ==
  SumSeq(SubSeq(xx, 1, nn), 1) % 5

invariant_cost(xx, nn) ==
  SumSeq(xx, 1) % 5

\* ----------------------------------------------------------- sampling
\* random.random() lies in [0, 1): p = 1.0 always yields 1, p = 0.0 always
\* yields 0, and any other p may yield any grid.  The grids drawn for
\* 0 < p < 1 are limited to the encodings 0..MaxCode.
AllGrids(nn) == [1..(nn * nn) -> {0, 1}]

Ps == {"0.0", "0.5", "1.0"}

sample_grid(nn, pp) ==
  IF pp = "1.0" THEN {[i \in 1..(nn * nn) |-> 1]}
  ELSE IF pp = "0.0" THEN {[i \in 1..(nn * nn) |-> 0]}
  ELSE {int_to_bits(v, nn * nn) : v \in {w \in 0..MaxCode : w < Pow2(nn * nn)}}

\* ------------------------------------------------ mutual information
\* A quotient a / b of two counts is kept exactly as the pair <<a, b>>.
Count(seq, v) == Cardinality({i \in 1..Len(seq) : seq[i] = v})

Firsts(seq) == [i \in 1..Len(seq) |-> seq[i][1]]

Seconds(seq) == [i \in 1..Len(seq) |-> seq[i][2]]

\* the keys of Counter(pairs) in insertion (first-occurrence) order
RECURSIVE CounterKeys(_, _, _)
CounterKeys(seq, i, keys) ==
  IF i > Len(seq) THEN keys
  ELSE CounterKeys(seq, i + 1,
         IF \E j \in 1..Len(keys) : keys[j] = seq[i] THEN keys
         ELSE Append(keys, seq[i]))

\* variant: the joint count is not divided by N (pxy = nxy)
empirical_mi_unnormalised(prs) ==
  LET N == Len(prs)
      cxy == CounterKeys(prs, 1, <<>>)
  IN  [j \in 1..Len(cxy) |->
         [px  |-> <<Count(Firsts(prs), cxy[j][1]), N>>,
          py  |-> <<Count(Seconds(prs), cxy[j][2]), N>>,
          pxy |-> <<Count(prs, cxy[j]), 1>>]]

\* The value returned is the sum, over the joint entries in order, of
\* pxy * log2(pxy / (px * py)); it is kept as the sequence of its terms.
empirical_mi(prs) ==
  LET N == Len(prs)
      cxy == CounterKeys(prs, 1, <<>>)
  IN  [j \in 1..Len(cxy) |->
         [px  |-> <<Count(Firsts(prs), cxy[j][1]), N>>,
          py  |-> <<Count(Seconds(prs), cxy[j][2]), N>>,
          pxy |-> <<Count(prs, cxy[j]), N>>]]

\* pxy / (px * py) = 1, over exact quotients
RatioIsOne(t) ==
  t.pxy[1] * t.px[2] * t.py[2] = t.px[1] * t.py[1] * t.pxy[2]

\* ------------------------------------------------------- compression
\* int.to_bytes(length, 'big')
to_bytes(v, length) ==
  [i \in 1..length |-> (v \div Pow2(8 * (length - i))) % 256]

\* zlib is an external lossless compressor: the length of its output is
\* some function of the input, here any length in 1..MaxCompressed.
compress_length_bytes(data) == 1..MaxCompressed

RECURSIVE pack_loop(_, _, _, _, _, _)
pack_loop(smp, i, nn, index_map, rw, cn) ==
  IF i > Len(smp) THEN <<rw, cn>>
  ELSE LET bytes_per == (nn * nn + 7) \div 8
           xi == bits_to_int(smp[i])
           ci == bits_to_int(canonical_representative(smp[i], nn, index_map))
       IN  pack_loop(smp, i + 1, nn, index_map,
                     rw \o to_bytes(xi, bytes_per), cn \o to_bytes(ci, bytes_per))

\* ------------------------------------------------ defaults of idle parts
GridIdle == x = <<>> /\ k = 0 /\ out = <<>> /\ op = "none"

MainIdle ==
  /\ args_samples = 0 /\ pairs = <<>> /\ mi_emp = <<>> /\ main_pc = "none"
  /\ raw = <<>> /\ canon = <<>> /\ L_raw = 0 /\ L_canon = 0
  /\ sci_est = <<>> /\ exc = "" /\ div_reached = FALSE /\ sizes = <<>>

SearchIdle ==
  /\ search_pc = "none" /\ idx = 0 /\ best = <<>> /\ evals_raw = 0
  /\ seen = {} /\ evals_orbit = 0 /\ best2 = <<>>
  /\ raw_log = <<>> /\ orbit_log = <<>> /\ result = <<>>

\* ------------------------------------------- the grid operations (Spec)
Init ==
  /\ n \in 1..MaxN
  /\ p = "0.5"
  /\ rot90_map = rotate90_indices(n)
  /\ x \in AllGrids(n)
  /\ k = 0 /\ out = <<>> /\ op = "input"
  /\ samples = <<>>
  /\ MainIdle /\ SearchIdle

Rotate ==
  /\ op = "input"
  /\ \E kk \in 0..MaxK :
       /\ k' = kk
       /\ out' = rotate(x, n, kk, rot90_map)
  /\ op' = "rotate"
  /\ UNCHANGED <<n, p, rot90_map, x, samples, mainVars, searchVars>>

ApplyMap ==
  /\ op = "input"
  /\ out' = apply_map(x, rot90_map)
  /\ op' = "apply_map"
  /\ UNCHANGED <<n, p, rot90_map, x, k, samples, mainVars, searchVars>>

Canonical ==
  /\ op = "input"
  /\ out' = canonical_representative(x, n, rot90_map)
  /\ op' = "canonical_representative"
  /\ UNCHANGED <<n, p, rot90_map, x, k, samples, mainVars, searchVars>>

OrbitSize ==
  /\ op = "input"
  /\ out' = orbit_size(x, n, rot90_map)
  /\ op' = "orbit_size"
  /\ UNCHANGED <<n, p, rot90_map, x, k, samples, mainVars, searchVars>>

Cost ==
  /\ op = "input"
  /\ out' = invariant_cost(x, n)
  /\ op' = "invariant_cost"
  /\ UNCHANGED <<n, p, rot90_map, x, k, samples, mainVars, searchVars>>

Next == Rotate \/ ApplyMap \/ Canonical \/ OrbitSize \/ Cost

Spec == Init /\ [][Next]_vars

\* ------------------------------------- brute_force_search (SpecSearch)
SeqsUpTo(S, L) == UNION {[1..l -> S] : l \in 0..L}

SearchStart ==
  /\ search_pc = "raw" /\ idx = 1 /\ best = <<>> /\ evals_raw = 0
  /\ seen = {} /\ evals_orbit = 0 /\ best2 = <<>>
  /\ raw_log = <<>> /\ orbit_log = <<>> /\ result = <<>>

InitSearch ==
  /\ n \in 1..MaxN
  /\ p \in Ps
  /\ rot90_map = rotate90_indices(n)
  /\ samples \in SeqsUpTo(sample_grid(n, p), MaxSamples)
  /\ GridIdle /\ MainIdle /\ SearchStart

\* one iteration of the raw scan
RawStep ==
  /\ search_pc = "raw" /\ idx <= Len(samples)
  /\ LET c == invariant_cost(samples[idx], n)
         improved == best = <<>> \/ c < best[1]
     IN  /\ evals_raw' = evals_raw + 1
         /\ raw_log' = Append(raw_log, idx)
         /\ best' = IF improved THEN <<c>> ELSE best
         /\ IF improved /\ c = 0
              THEN search_pc' = "orbit" /\ idx' = 1
              ELSE search_pc' = "raw" /\ idx' = idx + 1
  /\ UNCHANGED <<n, p, rot90_map, samples, gridVars, mainVars,
                 seen, evals_orbit, best2, orbit_log, result>>

\* the raw scan runs out of samples
RawLoopEnd ==
  /\ search_pc = "raw" /\ idx > Len(samples)
  /\ search_pc' = "orbit" /\ idx' = 1
  /\ UNCHANGED <<n, p, rot90_map, samples, gridVars, mainVars,
                 best, evals_raw, raw_log,
                 seen, evals_orbit, best2, orbit_log, result>>

\* variant: the orbit scan does not stop on cost 0
OrbitStep_no_break ==
  /\ search_pc = "orbit" /\ idx <= Len(samples)
  /\ LET rep == canonical_representative(samples[idx], n, rotate90_indices(n))
         rep_int == bits_to_int(rep)
         c == invariant_cost(rep, n)
     IN  IF rep_int \in seen
           THEN /\ idx' = idx + 1
                /\ UNCHANGED <<search_pc, seen, evals_orbit, best2, orbit_log>>
           ELSE /\ seen' = seen \cup {rep_int}
                /\ evals_orbit' = evals_orbit + 1
                /\ orbit_log' = Append(orbit_log, idx)
                /\ best2' = IF best2 = <<>> \/ c < best2[1] THEN <<c>> ELSE best2
                /\ idx' = idx + 1
                /\ search_pc' = "orbit"
  /\ UNCHANGED <<n, p, rot90_map, samples, gridVars, mainVars,
                 best, evals_raw, raw_log, result>>

\* variant: the orbit scan evaluates every sample, seen or not
OrbitStep_no_dedup ==
  /\ search_pc = "orbit" /\ idx <= Len(samples)
  /\ LET rep == canonical_representative(samples[idx], n, rotate90_indices(n))
         rep_int == bits_to_int(rep)
         c == invariant_cost(rep, n)
         improved == best2 = <<>> \/ c < best2[1]
     IN  /\ seen' = seen \cup {rep_int}
         /\ evals_orbit' = evals_orbit + 1
         /\ orbit_log' = Append(orbit_log, idx)
         /\ best2' = IF improved THEN <<c>> ELSE best2
         /\ IF improved /\ c = 0
              THEN search_pc' = "return" /\ idx' = idx
              ELSE search_pc' = "orbit" /\ idx' = idx + 1
  /\ UNCHANGED <<n, p, rot90_map, samples, gridVars, mainVars,
                 best, evals_raw, raw_log, result>>

\* one iteration of the orbit-restricted scan
OrbitStep ==
  /\ search_pc = "orbit" /\ idx <= Len(samples)
  /\ LET rep == canonical_representative(samples[idx], n, rotate90_indices(n))
         rep_int == bits_to_int(rep)
         c == invariant_cost(rep, n)
         improved == best2 = <<>> \/ c < best2[1]
     IN  IF rep_int \in seen
           THEN /\ idx' = idx + 1
                /\ UNCHANGED <<search_pc, seen, evals_orbit, best2, orbit_log>>
           ELSE /\ seen' = seen \cup {rep_int}
                /\ evals_orbit' = evals_orbit + 1
                /\ orbit_log' = Append(orbit_log, idx)
                /\ best2' = IF improved THEN <<c>> ELSE best2
                /\ IF improved /\ c = 0
                     THEN search_pc' = "return" /\ idx' = idx
                     ELSE search_pc' = "orbit" /\ idx' = idx + 1
  /\ UNCHANGED <<n, p, rot90_map, samples, gridVars, mainVars,
                 best, evals_raw, raw_log, result>>

\* the orbit-restricted scan runs out of samples
OrbitLoopEnd ==
  /\ search_pc = "orbit" /\ idx > Len(samples)
  /\ search_pc' = "return"
  /\ UNCHANGED <<n, p, rot90_map, samples, gridVars, mainVars,
                 idx, best, evals_raw, raw_log,
                 seen, evals_orbit, best2, orbit_log, result>>

\* return evals_raw, evals_orbit
SearchReturn ==
  /\ search_pc = "return"
  /\ result' = <<evals_raw, evals_orbit>>
  /\ search_pc' = "done"
  /\ UNCHANGED <<n, p, rot90_map, samples, gridVars, mainVars,
                 idx, best, evals_raw, raw_log,
                 seen, evals_orbit, best2, orbit_log>>

brute_force_search ==
  RawStep \/ RawLoopEnd \/ OrbitStep \/ OrbitLoopEnd \/ SearchReturn

NextSearch == brute_force_search

SpecSearch == InitSearch /\ [][NextSearch]_vars

\* --------------------------------------------------- main (SpecMain)
InitMain ==
  /\ n \in 1..MaxN
  /\ p \in Ps
  /\ rot90_map = rotate90_indices(n)
  /\ args_samples \in 0..MaxArgSamples
  /\ pairs = <<>> /\ mi_emp = <<>> /\ main_pc = "smi"
  /\ samples = <<>>
  /\ raw = <<>> /\ canon = <<>> /\ L_raw = 0 /\ L_canon = 0
  /\ sci_est = <<>> /\ exc = "" /\ div_reached = FALSE /\ sizes = <<>>
  /\ GridIdle /\ SearchIdle

\* one iteration of the pair-sampling loop
SamplePair ==
  /\ main_pc = "smi" /\ Len(pairs) < args_samples
  /\ \E xx \in sample_grid(n, p) : \E g \in 0..3 :
       LET y == rotate(xx, n, g, rot90_map)
       IN  pairs' = Append(pairs, <<bits_to_int(xx), bits_to_int(y)>>)
  /\ UNCHANGED <<n, p, rot90_map, samples, gridVars, searchVars,
                 args_samples, mi_emp, main_pc,
                 raw, canon, L_raw, L_canon, sci_est, exc, div_reached, sizes>>

\* mi_emp = empirical_mi(pairs); pairs is not read again and is dropped
EmpiricalMi ==
  /\ main_pc = "smi" /\ Len(pairs) = args_samples
  /\ mi_emp' = empirical_mi(pairs)
  /\ pairs' = <<>>
  /\ main_pc' = "sampling"
  /\ UNCHANGED <<n, p, rot90_map, samples, gridVars, searchVars,
                 args_samples,
                 raw, canon, L_raw, L_canon, sci_est, exc, div_reached, sizes>>

\* one item of samples = [sample_grid(n, p) for _ in range(args.samples)]
SampleSet ==
  /\ main_pc = "sampling" /\ Len(samples) < args_samples
  /\ \E xx \in sample_grid(n, p) : samples' = Append(samples, xx)
  /\ UNCHANGED <<n, p, rot90_map, gridVars, searchVars, mainVars>>

\* sci_via_compression: the packing loop
SciPack ==
  /\ main_pc = "sampling" /\ Len(samples) = args_samples
  /\ LET bufs == pack_loop(samples, 1, n, rot90_map, <<>>, <<>>)
     IN  raw' = bufs[1] /\ canon' = bufs[2]
  /\ main_pc' = "sci_packed"
  /\ UNCHANGED <<n, p, rot90_map, samples, gridVars, searchVars,
                 args_samples, pairs, mi_emp,
                 L_raw, L_canon, sci_est, exc, div_reached, sizes>>

\* sci_via_compression: the two compress_length_bytes calls; equal buffers
\* compress to equal lengths
SciCompress ==
  /\ main_pc = "sci_packed"
  /\ \E lr \in compress_length_bytes(raw) :
     \E lc \in (IF canon = raw THEN {lr} ELSE compress_length_bytes(canon)) :
       L_raw' = lr /\ L_canon' = lc
  /\ main_pc' = "sci_compressed"
  /\ UNCHANGED <<n, p, rot90_map, samples, gridVars, searchVars,
                 args_samples, pairs, mi_emp,
                 raw, canon, sci_est, exc, div_reached, sizes>>

\* sci_via_compression: (L_raw - L_canon) * 8.0 / len(samples); the
\* division raises ZeroDivisionError when there is no sample.  On return
\* the function's locals (the buffers and the two lengths) are gone.
SciDivide ==
  /\ main_pc = "sci_compressed"
  /\ div_reached' = TRUE
  /\ IF Len(samples) = 0
       THEN /\ exc' = "ZeroDivisionError"
            /\ main_pc' = "raised"
            /\ sci_est' = sci_est
       ELSE /\ sci_est' = <<(L_raw - L_canon) * 8, Len(samples)>>
            /\ main_pc' = "sci_done"
            /\ exc' = exc
  /\ raw' = <<>> /\ canon' = <<>> /\ L_raw' = 0 /\ L_canon' = 0
  /\ UNCHANGED <<n, p, rot90_map, samples, gridVars, searchVars,
                 args_samples, pairs, mi_emp, sizes>>

MaxOrbitStats == 2000

Min(a, b) == IF a < b THEN a ELSE b

\* orbit sizes of the first min(2000, len(samples)) samples
OrbitStats ==
  /\ main_pc = "sci_done"
  /\ sizes' = [i \in 1..Min(MaxOrbitStats, Len(samples)) |->
                 orbit_size(samples[i], n, rot90_map)]
  /\ main_pc' = "orbit_stats"
  /\ UNCHANGED <<n, p, rot90_map, samples, gridVars, searchVars,
                 args_samples, pairs, mi_emp,
                 raw, canon, L_raw, L_canon, sci_est, exc, div_reached>>

\* evals_raw, evals_orbit = brute_force_search(samples, n): the call.  The
\* search itself is SpecSearch, which starts from every sample sequence.
CallSearch ==
  /\ main_pc = "orbit_stats"
  /\ main_pc' = "search"
  /\ search_pc' = "raw" /\ idx' = 1 /\ best' = <<>> /\ evals_raw' = 0
  /\ seen' = {} /\ evals_orbit' = 0 /\ best2' = <<>>
  /\ raw_log' = <<>> /\ orbit_log' = <<>> /\ result' = <<>>
  /\ UNCHANGED <<n, p, rot90_map, samples, gridVars,
                 args_samples, pairs, mi_emp,
                 raw, canon, L_raw, L_canon, sci_est, exc, div_reached, sizes>>

NextMain ==
  \/ SamplePair \/ EmpiricalMi \/ SampleSet
  \/ SciPack \/ SciCompress \/ SciDivide
  \/ OrbitStats \/ CallSearch

SpecMain == InitMain /\ [][NextMain]_vars

\* ------------------------------------------------ properties under Spec
\* C1: canonicalization is orbit-invariant: the canonical representative of
\* a rotated grid rotate(x, n, k, m) is the canonical representative of x.
C1_CanonicalOrbitInvariant ==
  op = "rotate" =>
    canonical_representative(out, n, rot90_map)
      = canonical_representative(x, n, rot90_map)

C1_Witness ==
  /\ op = "rotate" /\ n = 3 /\ k \in 1..3 /\ out # x
  /\ canonical_representative(x, n, rot90_map) # x
  /\ canonical_representative(x, n, rot90_map) # out

\* C2: rotation has order 4: four successive applications of the map give
\* the grid back, so rotate (k mod 4 applications) equals k literal
\* applications; rotate by 0 and by 4 return the input.
C2_RotationOrderFour ==
  /\ op = "input" =>
       apply_map(apply_map(apply_map(apply_map(x, rot90_map), rot90_map),
                           rot90_map), rot90_map) = x
  /\ op = "rotate" =>
       /\ out = apply_times(x, rot90_map, k)
       /\ k \in {0, 4} => out = x

C2_Witness ==
  /\ op = "rotate" /\ k = 5 /\ n = 3 /\ out # x
  /\ out = apply_map(x, rot90_map)

\* C3: orbit_size is 1, 2 or 4 and is the number of distinct grids among
\* the grid and its 1-, 2- and 3-fold rotations.
C3_OrbitSizeDividesFour ==
  op = "orbit_size" =>
    /\ out \in {1, 2, 4}
    /\ out = Cardinality({apply_times(x, rot90_map, t) : t \in 0..3})

C3_Witness ==
  op = "orbit_size" /\ out = 2 /\ n = 3

\* C5: the cost is rotation-invariant: a rotated grid and the canonical
\* representative have the cost of the grid itself.
C5_CostRotationInvariant ==
  /\ op = "rotate" => invariant_cost(out, n) = invariant_cost(x, n)
  /\ op = "canonical_representative" =>
       invariant_cost(out, n) = invariant_cost(x, n)

C5_Witness ==
  /\ op = "canonical_representative" /\ out # x /\ n = 3
  /\ invariant_cost(x, n) = 0 /\ SumSeq(x, 1) = 5

\* C6: canonicalization is idempotent: canonicalizing a canonical
\* representative returns it unchanged.
C6_CanonicalIdempotent ==
  op = "canonical_representative" =>
    canonical_representative(out, n, rot90_map) = out

C6_Witness ==
  /\ op = "canonical_representative" /\ out # x
  /\ orbit_size(x, n, rot90_map) = 4

\* C9: the index map has n*n entries, is a permutation of 0..n*n-1, holds
\* the source index (n-1-c)*n + r at destination r*n + c, and apply_map
\* moves the value at row n-1-c, column r to row r, column c.
C9_IndexMapIsClockwisePermutation ==
  /\ Len(rot90_map) = n * n
  /\ \A v \in 0..(n * n - 1) :
       Cardinality({i \in 1..Len(rot90_map) : rot90_map[i] = v}) = 1
  /\ \A r \in 0..(n - 1) : \A c \in 0..(n - 1) :
       rot90_map[r * n + c + 1] = (n - 1 - c) * n + r
  /\ op = "apply_map" =>
       \A r \in 0..(n - 1) : \A c \in 0..(n - 1) :
         out[r * n + c + 1] = x[(n - 1 - c) * n + r + 1]

C9_Witness ==
  op = "apply_map" /\ n = 3 /\ out # x

\* ------------------------------------------ properties under SpecSearch
Rep(i) == canonical_representative(samples[i], n, rot90_map)

ZeroCost(i) == invariant_cost(samples[i], n) = 0

HasZero == \E i \in 1..Len(samples) : ZeroCost(i)

\* 1-based position of the first zero-cost sample, len(samples) if none
StopPos ==
  IF HasZero
    THEN CHOOSE i \in 1..Len(samples) :
           ZeroCost(i) /\ \A j \in 1..(i - 1) : ~ZeroCost(j)
    ELSE Len(samples)

DistinctReps(upto) == Cardinality({Rep(i) : i \in 1..upto})

\* C4: the search returns evals_orbit <= evals_raw, and with a zero-cost
\* sample present both counts lie in 1..len(samples).
C4_OrbitEvalsAtMostRaw ==
  search_pc = "done" =>
    /\ result[2] <= result[1]
    /\ HasZero => /\ result[1] \in 1..Len(samples)
                  /\ result[2] \in 1..Len(samples)

C4_Witness ==
  /\ search_pc = "done" /\ HasZero /\ n = 3
  /\ result[2] < result[1] /\ result[2] > 1

\* C10: both scans go through the samples in input order and stop at the
\* first evaluation of cost 0: evals_raw is the position of the first
\* zero-cost sample (len(samples) if none), evals_orbit the number of
\* distinct canonical representatives up to and including it; a sample
\* whose representative was already seen is never evaluated and no sample
\* after the stopping one is evaluated.
C10_ScansStopAtFirstZero ==
  /\ search_pc = "done" =>
       /\ result = <<StopPos, DistinctReps(StopPos)>>
       /\ Len(raw_log) = StopPos
       /\ \A i \in 1..StopPos :
            (\A j \in 1..(i - 1) : Rep(j) # Rep(i))
              => \E e \in 1..Len(orbit_log) : orbit_log[e] = i
  /\ \A e \in 1..Len(raw_log) : raw_log[e] = e /\ e <= StopPos
  /\ \A e \in 1..Len(orbit_log) :
       /\ orbit_log[e] \in 1..StopPos
       /\ \A f \in 1..(e - 1) : orbit_log[f] < orbit_log[e]
       /\ \A j \in 1..(orbit_log[e] - 1) : Rep(j) # Rep(orbit_log[e])

C10_Witness ==
  /\ search_pc = "done" /\ Len(samples) = 3 /\ n = 3
  /\ StopPos = 2 /\ HasZero /\ result = <<2, 2>>
  /\ Rep(3) # Rep(1) /\ Rep(3) # Rep(2)

\* -------------------------------------------- properties under SpecMain
\* C7: sci_via_compression rejects an empty sample list before the division
\* by the sample count is evaluated.
C7_EmptyRejectedBeforeDivision ==
  Len(samples) = 0 => ~div_reached

AllOnes(nn) == [i \in 1..(nn * nn) |-> 1]

\* C8: with n = 2 and p = 1.0 every sampled grid is all ones, has orbit
\* size 1 and is its own canonical representative; all (x, g.x) pairs are
\* one and the same pair, so the mutual information has a single joint
\* entry of ratio 1; the raw and canonical buffers are equal and the gain
\* is 0.
C8_ConstantSourceScenario ==
  (n = 2 /\ p = "1.0") =>
    /\ \A i \in 1..Len(samples) :
         /\ samples[i] = AllOnes(n)
         /\ orbit_size(samples[i], n, rot90_map) = 1
         /\ canonical_representative(samples[i], n, rot90_map) = samples[i]
    /\ \A i \in 1..Len(sizes) : sizes[i] = 1
    /\ main_pc \in {"orbit_stats", "search"} => Len(sizes) = Len(samples)
    /\ \A i \in 1..Len(pairs) : pairs[i] = pairs[1] /\ pairs[i][1] = pairs[i][2]
    /\ (main_pc # "smi" /\ args_samples >= 1) =>
         Len(mi_emp) = 1 /\ RatioIsOne(mi_emp[1])
    /\ main_pc \in {"sci_packed", "sci_compressed"} =>
         raw = canon /\ Len(raw) = Len(samples)
    /\ main_pc = "sci_compressed" => L_raw = L_canon /\ L_raw >= 1
    /\ main_pc \in {"sci_done", "orbit_stats", "search"} => sci_est # <<>>
    /\ sci_est # <<>> => sci_est[1] = 0

C8_Witness ==
  /\ n = 2 /\ p = "1.0" /\ main_pc = "search" /\ Len(samples) = 2
  /\ sci_est = <<0, 2>> /\ sizes = <<1, 1>>
  /\ mi_emp = <<[px |-> <<2, 2>>, py |-> <<2, 2>>, pxy |-> <<2, 2>>]>>

====
